---- MODULE Spec2Model ----
(***************************************************************************)
(* A model of the tlrandom kernel module (tlrandomfix.c): the blocking     *)
(* read facade, the entropy buffer manager, the USB command/response       *)
(* exchange, the RCT/APT health tests, and the probe / disconnect / module *)
(* exit paths that run concurrently with readers.                          *)
(***************************************************************************)
EXTENDS Integers, Sequences, FiniteSets, TLC

(***************************************************************************)
(* Sizes.  tlrandom.h is not part of the sources at hand, so the values of *)
(* the macros it defines are scaled choices; the relations between them    *)
(* are the ones tlrandomfix.c relies on.                                   *)
(***************************************************************************)
WORD_SIZE_BYTES == 4
OUT_NUM_WORDS == 8
MIN_INPUT_NUM_WORDS == 1
RND_IN_BUFFSIZE == 4
\* line 343: the raw block is hashed in sub-blocks of MIN_INPUT_NUM_WORDS words
NumSubBlocks == (RND_IN_BUFFSIZE \div WORD_SIZE_BYTES) \div MIN_INPUT_NUM_WORDS
\* lines 348-349: each sub-block yields OUT_NUM_WORDS words of the out buffer
TRND_OUT_BUFFSIZE == NumSubBlocks * OUT_NUM_WORDS * WORD_SIZE_BYTES
USB_BUFFER_SIZE == 8
USB_READ_MAX_RETRY_CNT == 2
numConsecFailThreshold == 5
\* sd.blockSerialNumber is a uint32_t seeded with 413145 (line 526); the
\* model keeps it modulo SerialModulus, standing for 2^32
SerialModulus == 2
SerialSeed == 413145 % SerialModulus

\* errno values returned by the driver (negated, as in the code)
SUCCESS == 0
EPERM == -1
EFAULT == -14
ENODATA == -61
ETIMEDOUT == -110
\* a bulk transfer that the USB core reports as failed (any non-zero retval)
EPIPE == -32

Min(a, b) == IF a < b THEN a ELSE b

(***************************************************************************)
(* Repetition Count Test                                                   *)
(***************************************************************************)
\* a restart that also forgets a latched failure
rct_restart_clearing(t) ==
  [t EXCEPT !.isInitialized = FALSE, !.curRepetitions = 1,
            !.failureWindow = 0, !.failureCount = 0, !.statusByte = 0]

rct_restart(t) ==
  [t EXCEPT !.isInitialized = FALSE, !.curRepetitions = 1,
            !.failureWindow = 0, !.failureCount = 0]

rct_initialize ==
  rct_restart([isInitialized |-> FALSE, lastSample |-> 0, curRepetitions |-> 0,
               failureWindow |-> 0, failureCount |-> 0,
               statusByte |-> 0, signature |-> 1, maxRepetitions |-> 5])

\* a test that counts only failures with no differing byte in between
rct_sample_consecutive(t, value) ==
  IF ~t.isInitialized
  THEN [t EXCEPT !.isInitialized = TRUE, !.lastSample = value]
  ELSE IF t.lastSample = value
       THEN IF t.curRepetitions + 1 >= t.maxRepetitions
            THEN [t EXCEPT !.curRepetitions = 1,
                           !.failureCount = @ + 1,
                           !.statusByte =
                              IF t.failureCount + 1 >= numConsecFailThreshold
                                 /\ t.statusByte = 0
                              THEN t.signature ELSE @]
            ELSE [t EXCEPT !.curRepetitions = @ + 1]
       ELSE [t EXCEPT !.lastSample = value, !.curRepetitions = 1,
                      !.failureCount = 0]

rct_sample(t, value) ==
  IF ~t.isInitialized
  THEN [t EXCEPT !.isInitialized = TRUE, !.lastSample = value]
  ELSE IF t.lastSample = value
       THEN IF t.curRepetitions + 1 >= t.maxRepetitions
            THEN [t EXCEPT !.curRepetitions = 1,
                           !.failureCount = @ + 1,
                           !.statusByte =
                              IF t.failureCount + 1 >= numConsecFailThreshold
                                 /\ t.statusByte = 0
                              THEN t.signature ELSE @]
            ELSE [t EXCEPT !.curRepetitions = @ + 1]
       ELSE [t EXCEPT !.lastSample = value, !.curRepetitions = 1]

(***************************************************************************)
(* Adaptive Proportion Test                                                *)
(***************************************************************************)
apt_restart_cycle(t) == [t EXCEPT !.cycleFailures = 0]

apt_restart(t) == apt_restart_cycle([t EXCEPT !.isInitialized = FALSE])

apt_initialize ==
  apt_restart([isInitialized |-> FALSE, firstSample |-> 0, curRepetitions |-> 0,
               curSamples |-> 0, cycleFailures |-> 0,
               statusByte |-> 0, signature |-> 2, windowSize |-> 64,
               cutoffValue |-> 5])

\* a test that starts the repetition counter afresh after a cycle failure
apt_sample_fresh_cycle(t, value) ==
  IF ~t.isInitialized
  THEN [t EXCEPT !.isInitialized = TRUE, !.firstSample = value,
                 !.curRepetitions = 0, !.curSamples = 0]
  ELSE LET t1 == [t EXCEPT !.curSamples = @ + 1,
                           !.isInitialized =
                              IF t.curSamples + 1 >= t.windowSize THEN FALSE ELSE @]
       IN IF t1.firstSample = value
          THEN LET t2 == [t1 EXCEPT !.curRepetitions = @ + 1]
               IN IF t2.curRepetitions > t2.cutoffValue
                  THEN [t2 EXCEPT !.curRepetitions = 0,
                                  !.cycleFailures = @ + 1,
                                  !.statusByte =
                                     IF t2.cycleFailures + 1 >= numConsecFailThreshold
                                        /\ t2.statusByte = 0
                                     THEN t2.signature ELSE @]
                  ELSE apt_restart_cycle(t2)
          ELSE t1

apt_sample(t, value) ==
  IF ~t.isInitialized
  THEN [t EXCEPT !.isInitialized = TRUE, !.firstSample = value,
                 !.curRepetitions = 0, !.curSamples = 0]
  ELSE LET t1 == [t EXCEPT !.curSamples = @ + 1,
                           !.isInitialized =
                              IF t.curSamples + 1 >= t.windowSize THEN FALSE ELSE @]
       IN IF t1.firstSample = value
          THEN LET t2 == [t1 EXCEPT !.curRepetitions = @ + 1]
               IN IF t2.curRepetitions > t2.cutoffValue
                  THEN [t2 EXCEPT !.cycleFailures = @ + 1,
                                  !.statusByte =
                                     IF t2.cycleFailures + 1 >= numConsecFailThreshold
                                        /\ t2.statusByte = 0
                                     THEN t2.signature ELSE @]
                  ELSE apt_restart_cycle(t2)
          ELSE t1

\* rcv_rnd_bytes lines 352-355: bytes lo..hi of the block go, in index
\* order, to both tests.  The range is split in halves, and ht is looked at
\* before it is passed on (statusByte is never negative), to keep the
\* evaluation shallow; the order of the samples is the loop's.
RECURSIVE SampleRange(_, _, _, _)
SampleRange(ht, block, lo, hi) ==
  IF lo > hi \/ ht.rct.statusByte < 0 THEN ht
  ELSE IF lo = hi
       THEN [rct |-> rct_sample(ht.rct, block[lo]),
             apt |-> apt_sample(ht.apt, block[lo])]
       ELSE LET mid == (lo + hi) \div 2
            IN SampleRange(SampleRange(ht, block, lo, mid), block, mid + 1, hi)

\* a sampling loop that starts at the second byte of the block
SampleAll_from_second(ht, block) == SampleRange(ht, block, 2, Len(block))

SampleAll(ht, block) == SampleRange(ht, block, 1, Len(block))

(***************************************************************************)
(* Conditioning.  A sub-block digest is SHA-256 over raw words the model   *)
(* does not interpret plus a serial number that differs on every call, so  *)
(* the digest that comes out is any of Digests: two well-spread ones, one  *)
(* stuck at a single byte value, one with every other byte equal.          *)
(***************************************************************************)
DigestLen == OUT_NUM_WORDS * WORD_SIZE_BYTES
DigestRampA == [i \in 1..DigestLen |-> i]
DigestRampB == [i \in 1..DigestLen |-> 100 + i]
DigestStuck == [i \in 1..DigestLen |-> 0]
Digests == {DigestRampA, DigestRampB, DigestStuck}

RECURSIVE Concat(_, _)
Concat(ds, i) == IF i > Len(ds) THEN << >> ELSE ds[i] \o Concat(ds, i + 1)

\* rcv_rnd_bytes lines 343-350: digest k lands at words [k*OUT_NUM_WORDS ..)
ConditionedBlock(ds) == Concat(ds, 1)

\* a stamp that leaves the counter where it is
sha256_stampSerialNumber_stuck(serial) == serial

\* sha256_stampSerialNumber: the serial stamped is the value before ++
sha256_stampSerialNumber(serial) == (serial + 1) % SerialModulus

RECURSIVE StampAll(_, _)
StampAll(serial, n) ==
  IF n = 0 THEN serial ELSE StampAll(sha256_stampSerialNumber(serial), n - 1)

(***************************************************************************)
(* Transport: the de-framing loop of chip_read_data (lines 453-465).       *)
(* xfer is the inbound transfer (1-based), i the C loop index (0-based).   *)
(***************************************************************************)
\* a de-framing loop that drops only the byte at each packet boundary
RECURSIVE StripLoop_one_byte(_, _, _, _, _, _)
StripLoop_one_byte(buff, cnt, xfer, i, size, length) ==
  IF i >= Len(xfer) THEN [buff |-> buff, cnt |-> cnt]
  ELSE IF i % size = 0
       THEN StripLoop_one_byte(buff, cnt, xfer, i + 1, size, length)
       ELSE LET b == [buff EXCEPT ![cnt + 1] = xfer[i + 1]]
            IN IF cnt + 1 >= length
               THEN [buff |-> b, cnt |-> cnt + 1]
               ELSE StripLoop_one_byte(b, cnt + 1, xfer, i + 1, size, length)

\* a de-framing loop that does not stop when length bytes are there
RECURSIVE StripLoop_no_break(_, _, _, _, _, _)
StripLoop_no_break(buff, cnt, xfer, i, size, length) ==
  IF i >= Len(xfer) THEN [buff |-> buff, cnt |-> cnt]
  ELSE IF i % size = 0
       THEN StripLoop_no_break(buff, cnt, xfer, i + 2, size, length)
       ELSE StripLoop_no_break(
              [j \in 1..Len(buff) |-> IF j = cnt + 1 THEN xfer[i + 1]
                                      ELSE buff[j]],
              cnt + 1, xfer, i + 1, size, length)

RECURSIVE StripLoop(_, _, _, _, _, _)
StripLoop(buff, cnt, xfer, i, size, length) ==
  IF i >= Len(xfer) THEN [buff |-> buff, cnt |-> cnt]
  ELSE IF i % size = 0
       THEN StripLoop(buff, cnt, xfer, i + 2, size, length)
       ELSE LET b == [buff EXCEPT ![cnt + 1] = xfer[i + 1]]
            IN IF cnt + 1 >= length
               THEN [buff |-> b, cnt |-> cnt + 1]
               ELSE StripLoop(b, cnt + 1, xfer, i + 1, size, length)

StripAppend(buff, cnt, xfer, size, length) ==
  IF Len(xfer) > 2 THEN StripLoop(buff, cnt, xfer, 0, size, length)
  ELSE [buff |-> buff, cnt |-> cnt]

\* what the device may put into one inbound bulk transfer
DeviceTransfers ==
  { <<8, 8, 0, 0>>,
    <<8, 8, 0, 0, 0, 0, 0>>,
    <<8, 8, 0, 0, 0, 0, 7>> }

BulkInSizes == {8}

\* lengths a caller may ask device_read for
ReadLengths == {0, TRND_OUT_BUFFSIZE,
                2 * TRND_OUT_BUFFSIZE + TRND_OUT_BUFFSIZE \div 2}

\* the threads that call device_read
Readers == {1, 2}
\* the thread of the USB core that calls usb_probe and usb_disconnect
UsbThread == 3

\* dataOpLock after mutex_init (line 521), and usbData when NULL (line 517)
Unlocked == 0
NullUsbData == [alloc |-> FALSE, bulk_in_size |-> 0, bulk_in_buffer |-> << >>,
                bulk_out_buffer |-> << >>]

\* wait_for_pending_ops gives up after this many polls
MaxPendingPolls == 1

(***************************************************************************)
(* The hash: sha256_generateHash (lines 749-834) and the functions it      *)
(* calls (705-715, 840-951).  Words are scaled from 32 bits to WordBits    *)
(* bits; rotation and shift distances are taken modulo WordBits.  The      *)
(* struct sd, the round constants k[], the macro ROTR and                  *)
(* maxDataBlockSizeWords are declared in tlrandom.h.                       *)
(***************************************************************************)
WordBits == 8
WordModulus == 2 ^ WordBits
maxDataBlockSizeWords == 16
ScheduleWords == 64

\* the round constants k[]
kRound == [t \in 0..(ScheduleWords - 1) |-> (37 * t + 11) % WordModulus]

\* the C operators &, ^ and ~ on words
RECURSIVE BitAnd(_, _)
BitAnd(x, y) ==
  IF x = 0 \/ y = 0 THEN 0
  ELSE (x % 2) * (y % 2) + 2 * BitAnd(x \div 2, y \div 2)

RECURSIVE BitXor(_, _)
BitXor(x, y) ==
  IF x = 0 THEN y
  ELSE IF y = 0 THEN x
  ELSE ((x + y) % 2) + 2 * BitXor(x \div 2, y \div 2)

BitNot(x) == WordModulus - 1 - x

\* x >> n, and the macro ROTR(n, x)
SHR(n, x) == x \div (2 ^ (n % WordBits))
ROTR(n, x) ==
  LET m == n % WordBits
  IN ((x \div (2 ^ m)) + (x % (2 ^ m)) * (2 ^ (WordBits - m))) % WordModulus

sha256_ch(x, y, z) == BitXor(BitAnd(x, y), BitAnd(BitNot(x), z))
sha256_maj(x, y, z) ==
  BitXor(BitXor(BitAnd(x, y), BitAnd(x, z)), BitAnd(y, z))
sha256_sum0(x) == BitXor(BitXor(ROTR(2, x), ROTR(13, x)), ROTR(22, x))
sha256_sum1(x) == BitXor(BitXor(ROTR(6, x), ROTR(11, x)), ROTR(25, x))
sha256_sigma0(x) == BitXor(BitXor(ROTR(7, x), ROTR(18, x)), SHR(3, x))
sha256_sigma1(x) == BitXor(BitXor(ROTR(17, x), ROTR(19, x)), SHR(10, x))

\* struct sd as the loader leaves it: static storage, all zero
SdZero ==
  [h0 |-> 0, h1 |-> 0, h2 |-> 0, h3 |-> 0, h4 |-> 0, h5 |-> 0, h6 |-> 0,
   h7 |-> 0, a |-> 0, b |-> 0, c |-> 0, d |-> 0, e |-> 0, f |-> 0, g |-> 0,
   h |-> 0, w |-> [t \in 0..(ScheduleWords - 1) |-> 0]]

\* a variant of sha256_initialize that leaves the running digest as it is
sha256_initialize_keeping(s) == s

\* lines 705-715; the constants are the top WordBits bits of the source's
sha256_initialize(s) ==
  [s EXCEPT !.h0 = 106, !.h1 = 187, !.h2 = 60, !.h3 = 165,
            !.h4 = 81, !.h5 = 155, !.h6 = 31, !.h7 = 91]

\* the one element of a set that has one element
Only(S) == CHOOSE x \in S : TRUE

\* line 845: element t of the message schedule
ScheduleWord(w, t) ==
  [w EXCEPT ![t] = (sha256_sigma1(w[t - 2]) + w[t - 7]
                    + sha256_sigma0(w[t - 15]) + w[t - 16]) % WordModulus]

\* lines 844-846: elements lo...hi of the message schedule, in ascending
\* order
RECURSIVE Schedule(_, _, _)
Schedule(w, lo, hi) ==
  IF lo > hi THEN w
  ELSE IF lo = hi THEN ScheduleWord(w, lo)
  ELSE LET mid == (lo + hi) \div 2
       IN Only({ Schedule(half, mid + 1, hi) : half \in {Schedule(w, lo, mid)} })

\* lines 860-869: one round; v holds the working variables a..h
Round(v, w, t) ==
  LET tmp1 == (v.h + sha256_sum1(v.e) + sha256_ch(v.e, v.f, v.g)
               + kRound[t] + w[t]) % WordModulus
      tmp2 == (sha256_sum0(v.a) + sha256_maj(v.a, v.b, v.c)) % WordModulus
  IN [a |-> (tmp1 + tmp2) % WordModulus, b |-> v.a, c |-> v.b, d |-> v.c,
      e |-> (v.d + tmp1) % WordModulus, f |-> v.e, g |-> v.f, h |-> v.g]

\* lines 859-870: rounds lo...hi, in ascending order
RECURSIVE Rounds(_, _, _, _)
Rounds(v, w, lo, hi) ==
  IF lo > hi THEN v
  ELSE IF lo = hi THEN Round(v, w, lo)
  ELSE LET mid == (lo + hi) \div 2
       IN Only({ Rounds(half, w, mid + 1, hi) : half \in {Rounds(v, w, lo, mid)} })

\* lines 840-881
sha256_hashCurrentBlock(s) ==
  Only({ Only({ [h0 |-> (s.h0 + v.a) % WordModulus,
                 h1 |-> (s.h1 + v.b) % WordModulus,
                 h2 |-> (s.h2 + v.c) % WordModulus,
                 h3 |-> (s.h3 + v.d) % WordModulus,
                 h4 |-> (s.h4 + v.e) % WordModulus,
                 h5 |-> (s.h5 + v.f) % WordModulus,
                 h6 |-> (s.h6 + v.g) % WordModulus,
                 h7 |-> (s.h7 + v.h) % WordModulus,
                 a |-> v.a, b |-> v.b, c |-> v.c, d |-> v.d, e |-> v.e,
                 f |-> v.f, g |-> v.g, h |-> v.h, w |-> w] :
               v \in {Rounds([a |-> s.h0, b |-> s.h1, c |-> s.h2, d |-> s.h3,
                              e |-> s.h4, f |-> s.h5, g |-> s.h6, h |-> s.h7],
                             w, 0, ScheduleWords - 1)} }) :
         w \in {Schedule(s.w, 16, ScheduleWords - 1)} })

\* lines 773-777: block blockNum of src is copied to w[0..15] and hashed
CompleteBlock(s, src, blockNum) ==
  LET srcOffset == blockNum * maxDataBlockSizeWords
  IN Only({ sha256_hashCurrentBlock(filled) :
            filled \in {[s EXCEPT !.w =
                           [t \in 0..(ScheduleWords - 1) |->
                              IF t < maxDataBlockSizeWords
                              THEN src[t + srcOffset + 1] ELSE s.w[t]]]} })

\* lines 771-778: the complete blocks blockNum .. num - 1 of src
RECURSIVE CompleteBlocks(_, _, _, _)
CompleteBlocks(s, src, blockNum, num) ==
  IF blockNum >= num THEN s
  ELSE Only({ CompleteBlocks(hashed, src, blockNum + 1, num) :
              hashed \in {CompleteBlock(s, src, blockNum)} })

\* lines 812-819: zeros from ui8 up to the last two words, which get the
\* message size
SizeBlock(w, ui8, size) ==
  [t \in 0..(ScheduleWords - 1) |->
     IF t >= ui8 /\ t < maxDataBlockSizeWords - 1 THEN 0
     ELSE IF t = maxDataBlockSizeWords - 1 THEN size
     ELSE w[t]]

\* lines 781-808: the last, incomplete block of src, when there is one; s
\* is struct sd after the complete blocks
LastBlock(s, src, len) ==
  LET marker == 2 ^ (WordBits - 1)
      initialMessageSize == (len * 8 * 4) % WordModulus
      reminder == len % maxDataBlockSizeWords
      srcOffset == (len \div maxDataBlockSizeWords) * maxDataBlockSizeWords
      \* lines 786-790: the last data words and the '1' marker
      wLast == [t \in 0..(ScheduleWords - 1) |->
                  IF t < reminder THEN src[t + srcOffset + 1]
                  ELSE IF t = reminder THEN marker
                  ELSE s.w[t]]
  IN IF reminder = 0 THEN s
     ELSE IF reminder + 1 < maxDataBlockSizeWords - 1
     THEN Only({ sha256_hashCurrentBlock(filled) :
                 filled \in {[s EXCEPT !.w = SizeBlock(wLast, reminder + 1,
                                                       initialMessageSize)]} })
     ELSE Only({ sha256_hashCurrentBlock(filled) :
                 filled \in {[s EXCEPT !.w =
                                [t \in 0..(ScheduleWords - 1) |->
                                   IF t = reminder + 1 THEN 0
                                   ELSE wLast[t]]]} })

\* lines 810-821: the block that holds only padding, when one is needed; s
\* is struct sd after LastBlock
AdditionalBlock(s, len) ==
  LET marker == 2 ^ (WordBits - 1)
      initialMessageSize == (len * 8 * 4) % WordModulus
      reminder == len % maxDataBlockSizeWords
      needAdditionalBlock ==
        reminder = 0 \/ ~(reminder + 1 < maxDataBlockSizeWords - 1)
      needToAddOneMarker == reminder = 0
      wExtra == IF needToAddOneMarker
                THEN SizeBlock([s.w EXCEPT ![0] = marker], 1,
                               initialMessageSize)
                ELSE SizeBlock(s.w, 0, initialMessageSize)
  IN IF needAdditionalBlock
     THEN Only({ sha256_hashCurrentBlock(filled) :
                 filled \in {[s EXCEPT !.w = wExtra]} })
     ELSE s

\* sha256_generateHash(src, len, dst) called with struct sd as s: the return
\* value, what it leaves in sd, and what it stores in dst (dst is << >> when
\* nothing is stored).  src is a sequence of words, src[1] the first.
sha256_generateHash(s, src, len) ==
  IF len <= 0 THEN [ret |-> -1, sd |-> s, dst |-> << >>]
  ELSE
    Only({ Only({ Only({ [ret |-> 0, sd |-> s3,
                          dst |-> << s3.h0, s3.h1, s3.h2, s3.h3,
                                     s3.h4, s3.h5, s3.h6, s3.h7 >>] :
                        s3 \in {AdditionalBlock(s2, len)} }) :
                 s2 \in {LastBlock(s1, src, len)} }) :
           s1 \in {CompleteBlocks(sha256_initialize(s), src, 0,
                                  len \div maxDataBlockSizeWords)} })

\* the self-test input testSeq1 of tlrandom.h: 11 words
testSeq1 == [i \in 1..11 |-> (29 * i + 3) % WordModulus]

\* struct sd once init_tlrandom has run the self-test (line 527)
SdAfterSelfTest == sha256_generateHash(SdZero, testSeq1, 11).sd

(***************************************************************************)
(* State                                                                   *)
(***************************************************************************)
VARIABLES
  isEntropySrcRdy, isShutDown, isDeviceOpPending, isUsbOpPending,
  dataOpLock,      \* Unlocked, or the thread that owns the mutex
  usbData,         \* NullUsbData, or the usb_data record
  buffRndIn,       \* RND_IN_BUFFSIZE + 1 bytes
  buffTRndOut,     \* TRND_OUT_BUFFSIZE bytes
  buffFreed,       \* TRUE once exit_tlrandom has kfree'd the two buffers
  curTrngOutIdx,
  blockSerialNumber,
  rct, apt,
  rd,              \* per reader: position in device_read and its locals
  usb,             \* the USB core thread running usb_probe / usb_disconnect
  ex,              \* the thread running exit_tlrandom
  hashLog,         \* history: the inputs given to sha256_generateHash by
                   \* rcv_rnd_bytes since start-up, oldest first
  sd,              \* struct sd, the state of the hash
  digestLog,       \* history: input and digest of the calls of
                   \* sha256_generateHash, oldest first
  charDev          \* TRUE while the character device is registered

vars == << isEntropySrcRdy, isShutDown, isDeviceOpPending, isUsbOpPending,
           dataOpLock, usbData, buffRndIn, buffTRndOut, buffFreed,
           curTrngOutIdx, blockSerialNumber, rct, apt, rd, usb, ex, charDev,
           hashLog, sd, digestLog >>

flagVars == << isEntropySrcRdy, isShutDown, isDeviceOpPending, isUsbOpPending >>
healthVars == << rct, apt >>
outVars == << buffTRndOut, curTrngOutIdx, blockSerialNumber >>
otherThreads == << usb, ex, charDev, buffFreed >>
hashVars == << hashLog, sd, digestLog >>

\* locals of a reader that is not inside device_read; the fields after cnt
\* are history the properties below are stated with
RdIdle ==
  [pc |-> "idle", length |-> 0, total |-> 0, retval |-> SUCCESS,
   retry |-> 0, cnt |-> 0,
   out |-> << >>,           \* the bytes copy_to_user has stored so far
   startIdx |-> 0,          \* curTrngOutIdx when the read took the lock
   refills |-> 0,           \* refill cycles that succeeded during this read
   produced |-> << >>,      \* the blocks those refills installed, in order
   writes |-> 0,            \* commands written by the exchange under way
   xret |-> SUCCESS,        \* retval of snd_rcv_usb_data
   rejected |-> FALSE,      \* turned away at line 258
   refillFailed |-> FALSE,  \* get_entropy_bytes returned an error
   copyFault |-> FALSE]     \* copy_to_user failed

\* the initializer of curTrngOutIdx, declared in tlrandom.h: the block starts
\* out exhausted, so that the first read refills it
InitialCursor == TRND_OUT_BUFFSIZE

\* init_tlrandom has returned SUCCESS; no device has been probed yet
Init ==
  /\ isEntropySrcRdy = FALSE
  /\ isShutDown = FALSE
  /\ isDeviceOpPending = FALSE
  /\ isUsbOpPending = FALSE
  /\ dataOpLock = Unlocked
  /\ usbData = NullUsbData
  /\ buffRndIn = [i \in 1..(RND_IN_BUFFSIZE + 1) |-> 0]
  /\ buffTRndOut = [i \in 1..TRND_OUT_BUFFSIZE |-> 0]
  /\ buffFreed = FALSE
  /\ curTrngOutIdx = InitialCursor
  /\ blockSerialNumber = SerialSeed
  /\ rct = rct_initialize
  /\ apt = apt_initialize
  /\ rd = [r \in Readers |-> RdIdle]
  /\ usb = [pc |-> "idle", bound |-> FALSE]
  /\ ex = [pc |-> "loaded", cnt |-> 0]
  /\ charDev = TRUE
  /\ hashLog = << >>
  /\ sd = SdAfterSelfTest
  /\ digestLog = << >>

\* a reader that has dereferenced usbData when it was NULL: the kernel
\* stops the thread where it is, with whatever it holds
Oops == [RdIdle EXCEPT !.pc = "oops"]

(***************************************************************************)
(* device_read (lines 246-292) and what it calls                           *)
(***************************************************************************)
Upd(r, f) == rd' = [rd EXCEPT ![r] = f]

TakeLock(r) ==
  /\ dataOpLock' = r
  /\ Upd(r, [RdIdle EXCEPT !.pc = "check"])

\* a caller enters device_read: it gets the mutex, or sleeps in
\* mutex_lock_killable (line 252)
device_read_call(r) ==
  /\ rd[r].pc = "idle"
  /\ charDev
  /\ IF dataOpLock = Unlocked
     THEN TakeLock(r)
     ELSE /\ Upd(r, [RdIdle EXCEPT !.pc = "lock"])
          /\ UNCHANGED dataOpLock
  /\ UNCHANGED << flagVars, usbData, buffRndIn, outVars, healthVars,
                  otherThreads >>
  /\ UNCHANGED hashVars

\* line 252, the sleeping caller gets the mutex
device_read_lock(r) ==
  /\ rd[r].pc = "lock"
  /\ dataOpLock = Unlocked
  /\ TakeLock(r)
  /\ UNCHANGED << flagVars, usbData, buffRndIn, outVars, healthVars,
                  otherThreads >>
  /\ UNCHANGED hashVars

\* lines 252-255, the wait for the mutex is ended by a fatal signal
device_read_killed(r) ==
  /\ rd[r].pc = "lock"
  /\ Upd(r, RdIdle)
  /\ UNCHANGED << flagVars, dataOpLock, usbData, buffRndIn, outVars,
                  healthVars, otherThreads >>
  /\ UNCHANGED hashVars

\* lines 258-262; the length argument is first looked at in the loop that
\* follows, which is where the model draws it
device_read_check(r) ==
  /\ rd[r].pc = "check"
  /\ IF ~isEntropySrcRdy \/ isShutDown
     THEN /\ Upd(r, [rd[r] EXCEPT !.pc = "exit", !.retval = ENODATA,
                                  !.rejected = TRUE])
          /\ UNCHANGED isDeviceOpPending
     ELSE /\ isDeviceOpPending' = TRUE
          /\ \E L \in ReadLengths :
               Upd(r, [rd[r] EXCEPT !.pc = "loop", !.total = 0, !.length = L,
                                    !.startIdx = curTrngOutIdx])
  /\ UNCHANGED << isEntropySrcRdy, isShutDown, isUsbOpPending, dataOpLock,
                  usbData, buffRndIn, outVars, healthVars, otherThreads >>
  /\ UNCHANGED hashVars

\* a test that asks for a new block as soon as any byte has been served
BlockUsedUp_early(cursor) == cursor > 0

\* line 302
BlockUsedUp(cursor) == cursor >= TRND_OUT_BUFFSIZE

\* get_entropy_bytes (lines 300-308) when the block is not used up
get_entropy_bytes(r) ==
  /\ rd[r].pc = "loop"
  /\ ~BlockUsedUp(curTrngOutIdx)
  /\ Upd(r, [rd[r] EXCEPT !.pc = "copy", !.retval = SUCCESS])
  /\ UNCHANGED << flagVars, dataOpLock, usbData, buffRndIn, outVars,
                  healthVars, otherThreads >>
  /\ UNCHANGED hashVars

\* get_entropy_bytes calling rcv_rnd_bytes, lines 324-336
rcv_rnd_bytes(r) ==
  /\ rd[r].pc = "loop"
  /\ BlockUsedUp(curTrngOutIdx)
  /\ IF ~isEntropySrcRdy \/ isShutDown
     THEN /\ Upd(r, [rd[r] EXCEPT !.pc = "exit", !.retval = EPERM,
                                  !.refillFailed = TRUE])
          /\ UNCHANGED << isUsbOpPending, usbData >>
     ELSE /\ isUsbOpPending' = TRUE
          /\ IF usbData = NullUsbData
             THEN /\ Upd(r, Oops)
                  /\ UNCHANGED usbData
             ELSE /\ usbData' = [usbData EXCEPT !.bulk_out_buffer =
                                   << 120, RND_IN_BUFFSIZE % 256,
                                      RND_IN_BUFFSIZE \div 256 >>]
                  /\ Upd(r, [rd[r] EXCEPT !.pc = "snd", !.retry = 0,
                                          !.writes = 0, !.xret = SUCCESS])
  /\ UNCHANGED << isEntropySrcRdy, isShutDown, isDeviceOpPending, dataOpLock,
                  buffRndIn, outVars, healthVars, otherThreads >>
  /\ UNCHANGED hashVars

\* a loop test that lets one attempt too many through
RetryLeft_inclusive(retry) == retry <= USB_READ_MAX_RETRY_CNT

(***************************************************************************)
(* snd_rcv_usb_data (lines 382-412) and chip_read_data (lines 423-476)     *)
(***************************************************************************)
\* line 387, the loop condition
RetryLeft(retry) == retry < USB_READ_MAX_RETRY_CNT

\* a retry loop that never looks at isShutDown
IterationAborts_never == FALSE

\* line 388, the test made at the top of every retry iteration
IterationAborts == isShutDown

\* lines 408-411, the value returned once the loop is left without a break
snd_rcv_result(retry, retval) ==
  IF retry >= USB_READ_MAX_RETRY_CNT THEN ETIMEDOUT ELSE retval

\* the exchange has failed with xret: rcv_rnd_bytes clears isUsbOpPending
\* (line 366) and device_read leaves its loop (line 279)
ExchangeFails(r, xret) ==
  /\ isUsbOpPending' = FALSE
  /\ Upd(r, [rd[r] EXCEPT !.pc = "exit", !.retval = xret,
                          !.retry = 0, !.writes = 0, !.xret = SUCCESS,
                          !.refillFailed = TRUE])

\* top of one retry iteration, lines 387-390, or the loop's end, 408-411
snd_rcv_usb_data(r) ==
  /\ rd[r].pc = "snd"
  /\ IF ~RetryLeft(rd[r].retry)
     THEN ExchangeFails(r, snd_rcv_result(rd[r].retry, rd[r].xret))
     ELSE IF IterationAborts
          THEN ExchangeFails(r, EPERM)
          ELSE /\ Upd(r, [rd[r] EXCEPT !.pc = "snd_write"])
               /\ UNCHANGED isUsbOpPending
  /\ UNCHANGED << isEntropySrcRdy, isShutDown, isDeviceOpPending, dataOpLock,
                  usbData, buffRndIn, outVars, healthVars, otherThreads >>
  /\ UNCHANGED hashVars

\* line 391, the command goes out; a failed or short write starts the next
\* iteration (lines 404-406)
snd_write(r) ==
  /\ rd[r].pc = "snd_write"
  /\ IF usbData = NullUsbData
     THEN Upd(r, Oops)
     ELSE \E sent \in BOOLEAN :
            Upd(r, [rd[r] EXCEPT !.pc = IF sent THEN "chip" ELSE "snd",
                                 !.writes = @ + 1,
                                 !.cnt = 0,
                                 !.xret = IF sent THEN @ ELSE EPIPE,
                                 !.retry = IF sent THEN @ ELSE @ + 1])
  /\ UNCHANGED << flagVars, dataOpLock, usbData, buffRndIn, outVars,
                  healthVars, otherThreads >>
  /\ UNCHANGED hashVars

\* the attempt has ended with retval, not SUCCESS with a zero status byte:
\* the for loop goes round (retry++)
AttemptFails(r, retval) ==
  Upd(r, [rd[r] EXCEPT !.pc = "snd", !.retry = @ + 1, !.xret = retval,
                       !.cnt = 0])

\* line 395: the status byte that follows the sizeRcv payload bytes
StatusByte(buff) == buff[RND_IN_BUFFSIZE + 1]

\* lines 446-475 and 394-403: what chip_read_data and its caller do with
\* one inbound transfer xfer; timedOut: secsWaited has reached opTimeoutSecs.
\* kept is what the model remembers of bulk_in_buffer afterwards.
chip_transfer(r, xfer, timedOut, kept) ==
  LET length == RND_IN_BUFFSIZE + 1
      res == StripAppend(buffRndIn, rd[r].cnt, xfer, usbData.bulk_in_size,
                         length)
  IN /\ usbData' = [usbData EXCEPT !.bulk_in_buffer = kept]
     /\ IF Len(xfer) > USB_BUFFER_SIZE
        THEN /\ AttemptFails(r, EFAULT)
             /\ UNCHANGED buffRndIn
        ELSE /\ buffRndIn' = res.buff
             /\ IF res.cnt < length /\ ~timedOut
                THEN Upd(r, [rd[r] EXCEPT !.cnt = res.cnt])
                ELSE IF res.cnt # length
                THEN AttemptFails(r, ETIMEDOUT)
                ELSE IF StatusByte(res.buff) # 0
                THEN AttemptFails(r, EFAULT)
                ELSE Upd(r, [rd[r] EXCEPT !.pc = "cond", !.cnt = 0,
                                          !.xret = SUCCESS])

\* one turn of the do-while of chip_read_data, lines 434-466.  Nothing reads
\* bulk_in_buffer after the de-framing loop, and its contents are not kept.
chip_read_data(r) ==
  /\ rd[r].pc = "chip"
  /\ IF isShutDown
     THEN /\ AttemptFails(r, EPERM)
          /\ UNCHANGED << usbData, buffRndIn >>
     ELSE IF usbData = NullUsbData
     THEN /\ Upd(r, Oops)
          /\ UNCHANGED << usbData, buffRndIn >>
     ELSE \/ /\ AttemptFails(r, EPIPE)
             /\ UNCHANGED << usbData, buffRndIn >>
          \/ \E xfer \in DeviceTransfers, timedOut \in BOOLEAN :
               chip_transfer(r, xfer, timedOut, << >>)
  /\ UNCHANGED << flagVars, dataOpLock, outVars, healthVars, otherThreads >>
  /\ UNCHANGED hashVars

(***************************************************************************)
(* rcv_rnd_bytes after a successful exchange, lines 339-367                *)
(***************************************************************************)
\* lines 357-363
RefillVerdict(rctS, aptS) ==
  IF rctS.statusByte # SUCCESS THEN EPERM
  ELSE IF aptS.statusByte # SUCCESS THEN EPERM
  ELSE SUCCESS

\* a hash input without the serial word
HashInput_unstamped(raw, serial, i) ==
  SubSeq(raw, (i - 1) * MIN_INPUT_NUM_WORDS * WORD_SIZE_BYTES + 1,
         i * MIN_INPUT_NUM_WORDS * WORD_SIZE_BYTES)

\* lines 345-347: what sub-block i of the raw block gives the hash, the
\* counter standing at serial when the loop starts: its raw bytes, then the
\* serial word stamped behind them
HashInput(raw, serial, i) ==
  SubSeq(raw, (i - 1) * MIN_INPUT_NUM_WORDS * WORD_SIZE_BYTES + 1,
         i * MIN_INPUT_NUM_WORDS * WORD_SIZE_BYTES)
    \o << StampAll(serial, i - 1) >>

HashInputs(raw, serial) ==
  [i \in 1..NumSubBlocks |-> HashInput(raw, serial, i)]

ConditionAndTest(r) ==
  /\ rd[r].pc = "cond"
  /\ \E ds \in [1..NumSubBlocks -> Digests] :
       LET block == ConditionedBlock(ds)
           ht == SampleAll([rct |-> rct_restart(rct), apt |-> apt_restart(apt)],
                           block)
           verdict == RefillVerdict(ht.rct, ht.apt)
       IN /\ buffTRndOut' = block
          /\ blockSerialNumber' = StampAll(blockSerialNumber, NumSubBlocks)
          /\ curTrngOutIdx' = 0
          /\ rct' = ht.rct
          /\ apt' = ht.apt
          /\ isUsbOpPending' = FALSE
          /\ IF verdict = SUCCESS
             THEN Upd(r, [rd[r] EXCEPT !.pc = "copy", !.retval = SUCCESS,
                                       !.retry = 0, !.writes = 0,
                                       !.refills = @ + 1,
                                       !.produced = @ \o block])
             ELSE Upd(r, [rd[r] EXCEPT !.pc = "exit", !.retval = verdict,
                                       !.retry = 0, !.writes = 0,
                                       !.refillFailed = TRUE])
  /\ UNCHANGED << isEntropySrcRdy, isShutDown, isDeviceOpPending, dataOpLock,
                  usbData, buffRndIn, otherThreads >>

\* Spec keeps no history of the hash inputs
condition_and_test(r) ==
  /\ ConditionAndTest(r)
  /\ UNCHANGED hashVars

(***************************************************************************)
(* device_read, the copy to the caller and the way out                     *)
(***************************************************************************)
\* a chunk size that forgets how much of the request is left
take_whole_block(cursor, length, total) == TRND_OUT_BUFFSIZE - cursor

\* a chunk size that forgets where the block ends
take_whole_request(cursor, length, total) == length - total

\* lines 266-269
take(cursor, length, total) ==
  Min(TRND_OUT_BUFFSIZE - cursor, length - total)

\* line 270: the act bytes at buffTRndOut + cursor (a byte beyond the
\* buffer's end reads as 255)
BytesAt(buff, cursor, act) ==
  [i \in 1..act |-> IF cursor + i <= Len(buff) THEN buff[cursor + i] ELSE 255]

\* lines 265-281
copy_to_user(r) ==
  /\ rd[r].pc = "copy"
  /\ LET act == take(curTrngOutIdx, rd[r].length, rd[r].total)
     IN \/ /\ act > 0
           /\ Upd(r, [rd[r] EXCEPT !.pc = "exit", !.retval = EFAULT,
                                   !.copyFault = TRUE])
           /\ UNCHANGED curTrngOutIdx
        \/ /\ curTrngOutIdx' = curTrngOutIdx + act
           /\ Upd(r, [rd[r] EXCEPT
                        !.out = @ \o BytesAt(buffTRndOut, curTrngOutIdx, act),
                        !.total = @ + act,
                        !.retval = rd[r].total + act,
                        !.pc = IF rd[r].total + act < rd[r].length
                               THEN "loop" ELSE "exit"])
  /\ UNCHANGED << flagVars, dataOpLock, usbData, buffRndIn, buffTRndOut,
                  blockSerialNumber, healthVars, otherThreads >>
  /\ UNCHANGED hashVars

\* a way out of device_read that forgets line 289
device_read_return_pending(r) ==
  /\ rd[r].pc = "exit"
  /\ dataOpLock' = Unlocked
  /\ Upd(r, RdIdle)
  /\ UNCHANGED << flagVars, usbData, buffRndIn, outVars, healthVars,
                  otherThreads >>
  /\ UNCHANGED hashVars

\* lines 289-291; rd[r].retval is what the caller gets
device_read_return(r) ==
  /\ rd[r].pc = "exit"
  /\ isDeviceOpPending' = FALSE
  /\ dataOpLock' = Unlocked
  /\ Upd(r, RdIdle)
  /\ UNCHANGED << isEntropySrcRdy, isShutDown, isUsbOpPending, usbData,
                  buffRndIn, outVars, healthVars, otherThreads >>
  /\ UNCHANGED hashVars

(***************************************************************************)
(* usb_probe (lines 67-158), usb_disconnect (165-174), clean_up_usb        *)
(***************************************************************************)
\* the driver is registered with the USB core until usb_deregister is done
DriverRegistered == ex.pc \in {"loaded", "shut", "wait", "dereg"}

\* lines 74-91: a device is plugged in, the mutex is taken, and the probe
\* goes on to set the device up.  When a device is already registered or
\* the module is shutting down the probe gives the mutex back at once and
\* has changed nothing.
usb_probe(t) ==
  /\ t = UsbThread
  /\ usb.pc = "idle"
  /\ DriverRegistered
  /\ dataOpLock = Unlocked
  /\ ~(isEntropySrcRdy \/ usbData # NullUsbData)
  /\ ~isShutDown
  /\ dataOpLock' = t
  /\ usb' = [usb EXCEPT !.pc = "setup"]
  /\ UNCHANGED << flagVars, usbData, buffRndIn, outVars, healthVars, rd, ex,
                  charDev, buffFreed >>
  /\ UNCHANGED hashVars

\* lines 94-157: allocation and endpoint discovery succeed, or fail and
\* clean_up_usb leaves usbData NULL
usb_probe_setup(t) ==
  /\ t = UsbThread
  /\ usb.pc = "setup"
  /\ \/ \E size \in BulkInSizes :
          /\ usbData' = [alloc |-> TRUE,
                         bulk_in_size |-> size, bulk_in_buffer |-> << >>,
                         bulk_out_buffer |-> << 0, 0, 0 >>]
          /\ isEntropySrcRdy' = TRUE
          /\ usb' = [pc |-> "idle", bound |-> TRUE]
     \/ /\ usbData' = NullUsbData
        /\ usb' = [usb EXCEPT !.pc = "idle"]
        /\ UNCHANGED isEntropySrcRdy
  /\ dataOpLock' = Unlocked
  /\ UNCHANGED << isShutDown, isDeviceOpPending, isUsbOpPending, buffRndIn,
                  outVars, healthVars, rd, ex, charDev, buffFreed >>
  /\ UNCHANGED hashVars

\* lines 170-173.  owner: the caller took the mutex at line 166.  When it
\* did not, mutex_unlock acts on a mutex some other thread owns, which may
\* or may not release it.
DisconnectBody(owner) ==
  /\ isEntropySrcRdy' = FALSE
  /\ usbData' = NullUsbData
  /\ IF owner THEN dataOpLock' = Unlocked
     ELSE dataOpLock' \in {dataOpLock, Unlocked}

\* usb_disconnect with the mutex taken at line 166
usb_disconnect(t) ==
  /\ t = UsbThread
  /\ usb.pc = "idle"
  /\ usb.bound
  /\ DriverRegistered
  /\ dataOpLock = Unlocked
  /\ DisconnectBody(TRUE)
  /\ usb' = [usb EXCEPT !.bound = FALSE]
  /\ UNCHANGED << isShutDown, isDeviceOpPending, isUsbOpPending, buffRndIn,
                  outVars, healthVars, rd, ex, charDev, buffFreed >>
  /\ UNCHANGED hashVars

(***************************************************************************)
(* exit_tlrandom (lines 675-688) and wait_for_pending_ops (694-699)        *)
(***************************************************************************)
\* line 677
exit_tlrandom ==
  /\ ex.pc = "loaded"
  /\ isEntropySrcRdy' = FALSE
  /\ ex' = [ex EXCEPT !.pc = "shut"]
  /\ UNCHANGED << isShutDown, isDeviceOpPending, isUsbOpPending, dataOpLock,
                  usbData, buffRndIn, outVars, healthVars, rd, usb, charDev,
                  buffFreed >>
  /\ UNCHANGED hashVars

\* line 678
exit_set_shutdown ==
  /\ ex.pc = "shut"
  /\ isShutDown' = TRUE
  /\ ex' = [ex EXCEPT !.pc = "wait", !.cnt = 0]
  /\ UNCHANGED << isEntropySrcRdy, isDeviceOpPending, isUsbOpPending,
                  dataOpLock, usbData, buffRndIn, outVars, healthVars, rd, usb,
                  charDev, buffFreed >>
  /\ UNCHANGED hashVars

\* lines 679-680 and 696-698: one poll of the pending flags
wait_for_pending_ops ==
  /\ ex.pc = "wait"
  /\ IF ex.cnt < MaxPendingPolls /\ (isDeviceOpPending \/ isUsbOpPending)
     THEN ex' = [ex EXCEPT !.cnt = @ + 1]
     ELSE ex' = [ex EXCEPT !.pc = "dereg"]
  /\ UNCHANGED << flagVars, dataOpLock, usbData, buffRndIn, outVars,
                  healthVars, rd, usb, charDev, buffFreed >>
  /\ UNCHANGED hashVars

\* line 681: usb_deregister unbinds the device, if one is bound, by calling
\* usb_disconnect in this thread, the one that unloads the module.  It can
\* be sent a fatal signal while it waits for the mutex: mutex_lock_killable
\* then fails and usb_disconnect carries on without the mutex (lines
\* 166-168).  The USB core's own thread is a kernel thread and is not.
usb_deregister ==
  /\ ex.pc = "dereg"
  /\ usb.pc = "idle"
  /\ IF usb.bound
     THEN /\ \/ dataOpLock = Unlocked /\ DisconnectBody(TRUE)
             \/ dataOpLock # Unlocked /\ DisconnectBody(FALSE)
          /\ usb' = [usb EXCEPT !.bound = FALSE]
     ELSE UNCHANGED << isEntropySrcRdy, usbData, dataOpLock, usb >>
  /\ ex' = [ex EXCEPT !.pc = "uninit"]
  /\ UNCHANGED << isShutDown, isDeviceOpPending, isUsbOpPending, buffRndIn,
                  outVars, healthVars, rd, charDev, buffFreed >>
  /\ UNCHANGED hashVars

\* lines 683-686: the character device goes, then the two buffers
uninit_char_dev ==
  /\ ex.pc = "uninit"
  /\ charDev' = FALSE
  /\ buffFreed' = TRUE
  /\ ex' = [ex EXCEPT !.pc = "unloaded"]
  /\ UNCHANGED << flagVars, dataOpLock, usbData, buffRndIn, outVars,
                  healthVars, rd, usb >>
  /\ UNCHANGED hashVars

Next ==
  \/ \E r \in Readers :
       \/ device_read_call(r)
       \/ device_read_lock(r)
       \/ device_read_killed(r)
       \/ device_read_check(r)
       \/ get_entropy_bytes(r)
       \/ rcv_rnd_bytes(r)
       \/ snd_rcv_usb_data(r)
       \/ snd_write(r)
       \/ chip_read_data(r)
       \/ condition_and_test(r)
       \/ copy_to_user(r)
       \/ device_read_return(r)
  \/ \E t \in {UsbThread} :
       \/ usb_probe(t)
       \/ usb_probe_setup(t)
       \/ usb_disconnect(t)
  \/ exit_tlrandom
  \/ exit_set_shutdown
  \/ wait_for_pending_ops
  \/ usb_deregister
  \/ uninit_char_dev

Spec == Init /\ [][Next]_vars

(***************************************************************************)
(* Properties of the read path                                            *)
(***************************************************************************)
Latched == rct.statusByte # 0 \/ apt.statusByte # 0

RefillPcs == {"loop", "snd", "snd_write", "chip", "cond"}

\* C1: once a health test has latched a failure, no output is handed to a
\* caller any more: no read gets as far as copying bytes of the block out.
C1_FailStop ==
  Latched => \A r \in Readers : rd[r].pc # "copy"

\* C2: a refill that fails, for whatever reason, leaves the output block
\* buffTRndOut and the cursor curTrngOutIdx exactly as they were.
C2_FailedRefillKeepsBlock ==
  [][\A r \in Readers :
       (rd[r].pc \in RefillPcs /\ rd'[r].pc = "exit" /\ rd'[r].refillFailed)
         => (buffTRndOut' = buffTRndOut /\ curTrngOutIdx' = curTrngOutIdx)]_vars

\* C3: a read whose refill fails returns the count of the bytes already
\* copied when at least one chunk went out, and the error code only when
\* nothing was copied.
C3_PartialCount ==
  \A r \in Readers :
    (rd[r].pc = "exit" /\ rd[r].refillFailed)
      => IF rd[r].total > 0 THEN rd[r].retval = rd[r].total
                            ELSE rd[r].retval < 0

CeilDiv(a, b) == (a + b - 1) \div b

\* a read of L > 0 bytes that started on an exhausted block and met no failure
CleanRead(r) ==
  /\ rd[r].pc = "exit"
  /\ rd[r].length > 0
  /\ rd[r].startIdx = TRND_OUT_BUFFSIZE
  /\ ~rd[r].rejected /\ ~rd[r].refillFailed /\ ~rd[r].copyFault

\* C4: a read of L > 0 bytes that starts on an exhausted block and meets no
\* failure refills ceil(L / TRND_OUT_BUFFSIZE) times, returns L, and the
\* bytes delivered are the first L bytes of the produced blocks in order.
C4_ReadServesBlocksInOrder ==
  \A r \in Readers :
    CleanRead(r) =>
      /\ rd[r].retval = rd[r].length
      /\ rd[r].refills = CeilDiv(rd[r].length, TRND_OUT_BUFFSIZE)
      /\ Len(rd[r].produced) = rd[r].refills * TRND_OUT_BUFFSIZE
      /\ rd[r].out = SubSeq(rd[r].produced, 1, rd[r].length)

\* a clean read that spans three blocks, the last one partly, with two
\* different blocks among them
C4_Witness ==
  \E r \in Readers :
    /\ CleanRead(r)
    /\ rd[r].length > 2 * TRND_OUT_BUFFSIZE
    /\ rd[r].length % TRND_OUT_BUFFSIZE # 0
    /\ rd[r].refills = 3
    /\ rd[r].out[1] # rd[r].out[TRND_OUT_BUFFSIZE + 1]

\* C5: the cursor always lies in 0 .. TRND_OUT_BUFFSIZE.
C5_CursorInRange ==
  curTrngOutIdx \in 0..TRND_OUT_BUFFSIZE

\* a read has crossed block boundaries and has left the cursor inside a block
C5_Witness ==
  /\ curTrngOutIdx > 0 /\ curTrngOutIdx < TRND_OUT_BUFFSIZE
  /\ \E r \in Readers : rd[r].pc = "exit" /\ rd[r].total > TRND_OUT_BUFFSIZE

\* C6: with no shutdown, an exchange that never completes writes the command
\* exactly USB_READ_MAX_RETRY_CNT times and then returns -ETIMEDOUT.
C6_RetryBudget ==
  [][\A r \in Readers :
       /\ rd'[r].writes <= USB_READ_MAX_RETRY_CNT
       /\ (rd[r].pc = "snd" /\ rd'[r].pc = "exit" /\ ~isShutDown)
            => /\ rd[r].writes = USB_READ_MAX_RETRY_CNT
               /\ rd'[r].retval = ETIMEDOUT]_vars

\* the retry budget is used up, every attempt wrote the command, and the
\* module is not shutting down
C6_Witness ==
  \E r \in Readers :
    /\ rd[r].pc = "snd"
    /\ rd[r].retry = USB_READ_MAX_RETRY_CNT
    /\ rd[r].writes = USB_READ_MAX_RETRY_CNT
    /\ ~isShutDown

\* C8: an exchange succeeds only over a zero status byte, and an exchange
\* whose last attempt collected the whole payload with a non-zero status
\* byte reports -EFAULT to its caller, not a timeout.
C8_StatusFaultReported ==
  [][\A r \in Readers :
       /\ rd'[r].pc = "cond" => StatusByte(buffRndIn') = 0
       /\ (rd[r].pc = "snd" /\ rd'[r].pc = "exit" /\ rd[r].xret = EFAULT
             /\ ~isShutDown)
            => rd'[r].retval = EFAULT]_vars

\* a reader's step other than stuttering
Moves(r) == rd'[r] # rd[r]

\* C9: isShutDown stays set; under it a read that reaches its readiness check
\* is rejected with -ENODATA, and a retry iteration that starts returns
\* -EPERM at once, whatever is left of the budget: neither goes on to write
\* the command.
C9_ShutdownStopsNewIO ==
  [][/\ isShutDown => isShutDown'
     /\ \A r \in Readers :
          (isShutDown /\ Moves(r)) =>
            /\ rd[r].pc = "check"
                 => (rd'[r].pc = "exit" /\ rd'[r].retval = ENODATA
                       /\ rd'[r].rejected)
            /\ (rd[r].pc = "snd" /\ RetryLeft(rd[r].retry))
                 => (rd'[r].pc = "exit" /\ rd'[r].retval = EPERM)
            /\ rd[r].pc \in {"check", "snd"} => rd'[r].pc # "snd_write"]_vars

\* shutdown is set and a reader stands at the top of a retry iteration with
\* budget left, after an earlier attempt
C9_Witness ==
  \E r \in Readers :
    /\ isShutDown
    /\ rd[r].pc = "snd"
    /\ rd[r].retry > 0
    /\ RetryLeft(rd[r].retry)

\* a step that frees buffRndIn and buffTRndOut, or usbData and its buffers
Frees ==
  \/ buffFreed' /\ ~buffFreed
  \/ usbData' = NullUsbData /\ usbData # NullUsbData

\* C10: the buffers are never freed while a read holds the lock or while
\* isDeviceOpPending or isUsbOpPending is true.
C10_NoTeardownDuringRead ==
  [][Frees => /\ dataOpLock \notin Readers
              /\ ~isDeviceOpPending
              /\ ~isUsbOpPending]_vars

\* C10, the drain alone: the buffers are never freed while a pending flag
\* is true.
C10_NoTeardownWhilePending ==
  [][Frees => (~isDeviceOpPending /\ ~isUsbOpPending)]_vars

(***************************************************************************)
(* chip_read_data on its own: one reader inside an exchange of a probed    *)
(* device, fed transfers of every length up to USB_BUFFER_SIZE over        *)
(* several packet sizes.  A transfer's bytes are tagged with their offset  *)
(* so that the accumulator shows which offsets were kept.                  *)
(***************************************************************************)
ChipSizes == {3, 4}

ChipTags == {0, 10}

ChipTransfers ==
  { [i \in 1..n |-> IF tag = 0 THEN 0 ELSE tag + i] :
      n \in 0..USB_BUFFER_SIZE, tag \in ChipTags }

ChipReader == 1

\* the state reached by usb_probe, device_read up to line 263, rcv_rnd_bytes
\* up to line 338 and the first write of the command at line 391
InitChip ==
  /\ isEntropySrcRdy = TRUE
  /\ isShutDown = FALSE
  /\ isDeviceOpPending = TRUE
  /\ isUsbOpPending = TRUE
  /\ dataOpLock = ChipReader
  /\ \E size \in ChipSizes :
       usbData = [alloc |-> TRUE, bulk_in_size |-> size,
                  bulk_in_buffer |-> << >>,
                  bulk_out_buffer |-> << 120, RND_IN_BUFFSIZE % 256,
                                         RND_IN_BUFFSIZE \div 256 >>]
  /\ buffRndIn = [i \in 1..(RND_IN_BUFFSIZE + 1) |-> 0]
  /\ buffTRndOut = [i \in 1..TRND_OUT_BUFFSIZE |-> 0]
  /\ buffFreed = FALSE
  /\ curTrngOutIdx = InitialCursor
  /\ blockSerialNumber = SerialSeed
  /\ rct = rct_initialize
  /\ apt = apt_initialize
  /\ rd = [r \in Readers |->
             IF r = ChipReader
             THEN [RdIdle EXCEPT !.pc = "chip", !.length = TRND_OUT_BUFFSIZE,
                                 !.startIdx = TRND_OUT_BUFFSIZE, !.writes = 1]
             ELSE RdIdle]
  /\ usb = [pc |-> "idle", bound |-> TRUE]
  /\ ex = [pc |-> "loaded", cnt |-> 0]
  /\ charDev = TRUE
  /\ hashLog = << >>
  /\ sd = SdAfterSelfTest
  /\ digestLog = << >>

\* lines 438-475: one turn of the do-while on a transfer that arrived
chip_read_any(r) ==
  /\ rd[r].pc = "chip"
  /\ \E xfer \in ChipTransfers, timedOut \in BOOLEAN :
       chip_transfer(r, xfer, timedOut, xfer)
  /\ UNCHANGED << flagVars, dataOpLock, outVars, healthVars, otherThreads >>
  /\ UNCHANGED hashVars

\* lines 393 and 433: chip_read_data is called again, with cnt = 0
chip_read_again(r) ==
  /\ rd[r].pc \in {"snd", "cond"}
  /\ Upd(r, [rd[r] EXCEPT !.pc = "chip", !.cnt = 0, !.retry = 0,
                          !.xret = SUCCESS])
  /\ UNCHANGED << flagVars, dataOpLock, usbData, buffRndIn, outVars,
                  healthVars, otherThreads >>
  /\ UNCHANGED hashVars

NextChip ==
  \/ chip_read_any(ChipReader)
  \/ chip_read_again(ChipReader)

SpecChip == InitChip /\ [][NextChip]_vars

\* the offsets (0-based) of a transfer that survive when the first strip
\* bytes of every packet of size bytes are dropped
KeptOffsets(xfer, size, strip) ==
  { i \in 0..(Len(xfer) - 1) : i % size >= strip }

\* the bytes at those offsets, in order
Payload(xfer, size, strip) ==
  LET K == KeptOffsets(xfer, size, strip)
      nth(k) == CHOOSE i \in K : Cardinality({ j \in K : j < i }) = k - 1
  IN [k \in 1..Cardinality(K) |-> xfer[nth(k) + 1]]

\* buff after the payload is appended at cnt, up to length bytes in all
Appended(buff, cnt, xfer, size, length, strip) ==
  LET p == Payload(xfer, size, strip)
      m == Min(Len(p), length - cnt)
  IN [j \in 1..Len(buff) |->
        IF j > cnt /\ j <= cnt + m THEN p[j - cnt] ELSE buff[j]]

\* the accumulator after a turn of chip_read_data is the one before it with
\* the transfer's payload appended, strip bytes per packet dropped
StripsPerPacket(strip) ==
  \A r \in Readers :
    (rd[r].pc = "chip" /\ Moves(r)) =>
      buffRndIn' = Appended(buffRndIn, rd[r].cnt, usbData'.bulk_in_buffer,
                            usbData.bulk_in_size, RND_IN_BUFFSIZE + 1, strip)

WriterHoldsLock ==
  \/ \E r \in Readers : rd'[r] # rd[r] /\ dataOpLock = r
  \/ usb.pc = "setup" /\ usb' # usb /\ dataOpLock = UsbThread
  \/ usb_disconnect(UsbThread)

\* C11: every write that changes isEntropySrcRdy, isShutDown,
\* isDeviceOpPending or isUsbOpPending is made by a thread that holds
\* dataOpLock.
C11_FlagsWrittenUnderLock ==
  [][flagVars' # flagVars => WriterHoldsLock]_vars

(***************************************************************************)
(* The health tests on their own: after start-up each test is fed bytes    *)
(* and restarted in any order.  The byte handed to a test stands in        *)
(* buffTRndOut[1], as at lines 353-354.  One test is driven at a time.     *)
(***************************************************************************)
SampleBytes == {0, 7, 255}

\* rct.failureCount is an int that only rct_restart resets; the model stops
\* feeding RCT once it has counted this far
MaxFailureCount == 7

\* line 353
health_rct_sample ==
  /\ apt = apt_initialize
  /\ rct.failureCount < MaxFailureCount
  /\ \E value \in SampleBytes :
       /\ buffTRndOut' = [buffTRndOut EXCEPT ![1] = value]
       /\ rct' = rct_sample(rct, value)
  /\ UNCHANGED << flagVars, dataOpLock, usbData, buffRndIn, curTrngOutIdx,
                  blockSerialNumber, apt, rd, otherThreads >>
  /\ UNCHANGED hashVars

\* line 341
health_rct_restart ==
  /\ apt = apt_initialize
  /\ rct' = rct_restart(rct)
  /\ UNCHANGED << flagVars, dataOpLock, usbData, buffRndIn, outVars, apt, rd,
                  otherThreads >>
  /\ UNCHANGED hashVars

\* line 354
health_apt_sample ==
  /\ rct = rct_initialize
  /\ \E value \in SampleBytes :
       /\ buffTRndOut' = [buffTRndOut EXCEPT ![1] = value]
       /\ apt' = apt_sample(apt, value)
  /\ UNCHANGED << flagVars, dataOpLock, usbData, buffRndIn, curTrngOutIdx,
                  blockSerialNumber, rct, rd, otherThreads >>
  /\ UNCHANGED hashVars

\* line 342
health_apt_restart ==
  /\ rct = rct_initialize
  /\ apt' = apt_restart(apt)
  /\ UNCHANGED << flagVars, dataOpLock, usbData, buffRndIn, outVars, rct, rd,
                  otherThreads >>
  /\ UNCHANGED hashVars

NextHealth ==
  \/ health_rct_sample
  \/ health_rct_restart
  \/ health_apt_sample
  \/ health_apt_restart

SpecHealth == Init /\ [][NextHealth]_vars

\* C12: under any bytes and any restarts a statusByte that is non-zero stays
\* what it is, and it is never anything but 0 or its test's signature (1 for
\* RCT, 2 for APT).
C12_StatusByteSticky ==
  [][/\ rct.statusByte # 0 => rct'.statusByte = rct.statusByte
     /\ apt.statusByte # 0 => apt'.statusByte = apt.statusByte
     /\ rct'.statusByte \in {0, 1}
     /\ apt'.statusByte \in {0, 2}]_vars

\* RCT has latched, has been restarted, and has taken samples again
C12_Witness ==
  /\ rct.statusByte = 1
  /\ rct.isInitialized
  /\ rct.failureCount = 0

\* C13: from a restart on, a sample that brings a run of equal bytes to
\* maxRepetitions (5) adds one to failureCount and starts the run counter
\* again at 1; a differing byte starts it again at 1 and leaves failureCount
\* as it is; any other sample only lengthens the run; and statusByte carries
\* the RCT signature as soon as failureCount has reached the threshold, and
\* not before.
C13_RctCountsRuns ==
  [][health_rct_sample =>
       LET v == buffTRndOut'[1]
           same == rct.isInitialized /\ v = rct.lastSample
           hit == same /\ rct.curRepetitions + 1 = 5
       IN /\ rct'.failureCount = rct.failureCount + (IF hit THEN 1 ELSE 0)
          /\ rct'.curRepetitions =
               IF ~rct.isInitialized THEN rct.curRepetitions
               ELSE IF same /\ ~hit THEN rct.curRepetitions + 1 ELSE 1
          /\ rct'.curRepetitions \in 1..4
          /\ rct'.lastSample = v
          /\ rct'.failureCount >= numConsecFailThreshold
               => rct'.statusByte = 1
          /\ (rct.statusByte = 0
                /\ rct'.failureCount < numConsecFailThreshold)
               => rct'.statusByte = 0]_vars

\* the count has just reached the threshold and RCT has latched
C13_Witness ==
  /\ rct.isInitialized
  /\ rct.failureCount = numConsecFailThreshold
  /\ rct.curRepetitions = 1
  /\ rct.statusByte = 1

\* C14: inside a window every recurrence of firstSample beyond cutoffValue
\* (5) recurrences adds one to cycleFailures, so that past the cutoff
\* cycleFailures is the number of recurrences less 5; and statusByte
\* carries the APT signature as soon as cycleFailures has reached the
\* threshold, and not before.
C14_AptCountsRecurrences ==
  [][health_apt_sample =>
       LET v == buffTRndOut'[1]
           recurs == apt.isInitialized /\ v = apt.firstSample
       IN /\ (recurs /\ apt.curRepetitions >= 5)
               => /\ apt'.curRepetitions = apt.curRepetitions + 1
                  /\ apt'.cycleFailures = apt.cycleFailures + 1
                  /\ apt'.cycleFailures = apt'.curRepetitions - 5
          /\ (recurs /\ apt.curRepetitions < 5)
               => /\ apt'.curRepetitions = apt.curRepetitions + 1
                  /\ apt'.cycleFailures = 0
          /\ ~recurs => apt'.cycleFailures = apt.cycleFailures
          /\ apt'.cycleFailures >= numConsecFailThreshold
               => apt'.statusByte = 2
          /\ (apt.statusByte = 0
                /\ apt'.cycleFailures < numConsecFailThreshold)
               => apt'.statusByte = 0]_vars

\* inside one window the first byte has recurred cutoffValue plus threshold
\* times and APT has just latched
C14_Witness ==
  /\ apt.isInitialized
  /\ apt.curRepetitions = 5 + numConsecFailThreshold
  /\ apt.cycleFailures = numConsecFailThreshold
  /\ apt.statusByte = 2

(***************************************************************************)
(* The serial counter: one caller reads again and again from a device that *)
(* is plugged in, and hashLog keeps every input given to the hash.         *)
(***************************************************************************)
\* the model stops conditioning once the history is this long
MaxHashLog == 4

\* lines 339-367, remembering what was hashed
condition_and_log(r) ==
  /\ Len(hashLog) + NumSubBlocks <= MaxHashLog
  /\ ConditionAndTest(r)
  /\ hashLog' = hashLog \o HashInputs(buffRndIn, blockSerialNumber)
  /\ UNCHANGED << sd, digestLog >>

NextSerial ==
  \/ device_read_call(ChipReader)
  \/ device_read_lock(ChipReader)
  \/ device_read_killed(ChipReader)
  \/ device_read_check(ChipReader)
  \/ get_entropy_bytes(ChipReader)
  \/ rcv_rnd_bytes(ChipReader)
  \/ snd_rcv_usb_data(ChipReader)
  \/ snd_write(ChipReader)
  \/ chip_read_data(ChipReader)
  \/ condition_and_log(ChipReader)
  \/ copy_to_user(ChipReader)
  \/ device_read_return(ChipReader)
  \/ usb_probe(UsbThread)
  \/ usb_probe_setup(UsbThread)

SpecSerial == Init /\ [][NextSerial]_vars

\* the serial word of a hash input, its last word
SerialWord(input) == input[Len(input)]

\* C15: the counter stands at the seed plus the number of sub-blocks hashed
\* since start-up (modulo the counter's range), and the k-th sub-block
\* hashed, counting from 0, carries the seed plus k: the value the counter
\* had before its increment.
C15_SerialCountsSubBlocks ==
  /\ blockSerialNumber = (SerialSeed + Len(hashLog)) % SerialModulus
  /\ \A k \in 1..Len(hashLog) :
       SerialWord(hashLog[k]) = (SerialSeed + (k - 1)) % SerialModulus

\* several sub-blocks have been hashed, one of them in a refill that the
\* health tests then rejected
C15_Witness ==
  /\ Len(hashLog) >= 3
  /\ Latched
  /\ \E r \in Readers : rd[r].refills > 0

\* C16: no two inputs ever given to the hash are identical, however long
\* the module runs, the counter wrapping around included.
C16_HashInputsNeverRepeat ==
  \A j, k \in 1..Len(hashLog) : j < k => hashLog[j] # hashLog[k]

\* C16, as the code has it: two inputs given to the hash fewer sub-blocks
\* apart than the counter's range are never identical, even when the raw
\* bytes repeat; from that distance on the counter has wrapped and they can
\* be.
C16_HashInputsDifferWithinRange ==
  \A j, k \in 1..Len(hashLog) :
    (j < k /\ k - j < SerialModulus) => hashLog[j] # hashLog[k]

\* two sub-blocks hashed one after the other had the same raw bytes
C16_Witness ==
  \E k \in 2..Len(hashLog) :
    /\ SubSeq(hashLog[k], 1, Len(hashLog[k]) - 1)
         = SubSeq(hashLog[k - 1], 1, Len(hashLog[k - 1]) - 1)
    /\ hashLog[k] # hashLog[k - 1]

(***************************************************************************)
(* Module start-up: init_tlrandom (lines 511-575) with its self-test       *)
(* (959-969).  ex is the thread that loads the module; ex.results is the   *)
(* digest that sha256_generateHash has put into results at line 963.       *)
(***************************************************************************)
\* the reference digest exptHashSeq1 of tlrandom.h, byte by byte
exptHashSeq1 == [i \in 1..DigestLen |-> (37 * i) % 256]

\* the digests the self-test may be given: the reference digest, and the
\* reference digest with any one byte a little higher or lower
SelfTestResults ==
  {exptHashSeq1} \cup
  { [exptHashSeq1 EXCEPT ![p] = (@ + d) % 256] :
      p \in 1..DigestLen, d \in {1, 255} }

\* line 966: the number of bytes that memcmp is told to compare
SelfTestCmpLen == 8

\* memcmp(a, b, n)
memcmp(a, b, n) ==
  LET D == { i \in 1..n : a[i] # b[i] }
  IN IF D = {} THEN 0
     ELSE LET i == CHOOSE m \in D : \A o \in D : m <= o
          IN IF a[i] < b[i] THEN -1 ELSE 1

\* lines 517-526 and 963: the module is being loaded and the self-test has
\* computed its digest
InitLoad ==
  /\ isEntropySrcRdy = FALSE
  /\ isShutDown = FALSE
  /\ isDeviceOpPending = FALSE
  /\ isUsbOpPending = FALSE
  /\ dataOpLock = Unlocked
  /\ usbData = NullUsbData
  /\ buffRndIn = << >>
  /\ buffTRndOut = << >>
  /\ buffFreed = FALSE
  /\ curTrngOutIdx = InitialCursor
  /\ blockSerialNumber = SerialSeed
  /\ rct = rct_initialize
  /\ apt = apt_initialize
  /\ rd = [r \in Readers |-> RdIdle]
  /\ usb = [pc |-> "idle", bound |-> FALSE]
  /\ \E d \in SelfTestResults :
       ex = [pc |-> "selftest", cnt |-> 0, results |-> d]
  /\ charDev = FALSE
  /\ hashLog = << >>
  /\ sd = SdAfterSelfTest
  /\ digestLog = << >>

\* lines 964-968; ex.cnt takes the value returned
sha256_selfTest ==
  /\ ex.pc = "selftest"
  /\ ex' = [ex EXCEPT !.pc = "tested",
                      !.cnt = memcmp(ex.results, exptHashSeq1, SelfTestCmpLen)]
  /\ UNCHANGED << flagVars, dataOpLock, usbData, buffRndIn, outVars,
                  healthVars, rd, usb, charDev, buffFreed, hashVars >>

\* lines 527-574: a failed self-test ends the load; otherwise the character
\* device is made, the buffers are allocated and the USB driver registered
init_tlrandom ==
  /\ ex.pc = "tested"
  /\ IF ex.cnt # SUCCESS
     THEN /\ ex' = [ex EXCEPT !.pc = "failed"]
          /\ UNCHANGED << charDev, buffRndIn, buffTRndOut >>
     ELSE /\ ex' = [ex EXCEPT !.pc = "loaded", !.cnt = 0]
          /\ charDev' = TRUE
          /\ buffRndIn' = [i \in 1..(RND_IN_BUFFSIZE + 1) |-> 0]
          /\ buffTRndOut' = [i \in 1..TRND_OUT_BUFFSIZE |-> 0]
  /\ UNCHANGED << flagVars, dataOpLock, usbData, curTrngOutIdx,
                  blockSerialNumber, healthVars, rd, usb, buffFreed, hashVars >>

NextLoad ==
  \/ sha256_selfTest
  \/ init_tlrandom

SpecLoad == InitLoad /\ [][NextLoad]_vars

\* C17: the self-test compares the whole digest: the module gets loaded,
\* with its device and buffers, only if the computed digest equals the
\* reference digest in every one of its 32 bytes.
C17_SelfTestComparesWholeDigest ==
  (ex.pc = "loaded" /\ charDev) => ex.results = exptHashSeq1

(***************************************************************************)
(* sha256_generateHash called again and again, for C18: the module has     *)
(* been loaded with any seed, and every step hashes either a stamped       *)
(* sub-block, as rcv_rnd_bytes does, or a whole vector, as the self-test   *)
(* does.  digestLog keeps the input and the digest of every call.          *)
(***************************************************************************)
MaxDigestLog == 3

\* the raw halves of the sub-blocks, and the vectors: the self-test input,
\* one whose padding needs a block of its own, one that is a complete block
RawSubBlocks == { [i \in 1..MIN_INPUT_NUM_WORDS |-> x] : x \in {0, 255} }
HashVectors ==
  {testSeq1, [i \in 1..14 |-> i], [i \in 1..maxDataBlockSizeWords |-> 255 - i]}

\* the digest of testSeq1 computed by a freshly loaded module (line 963)
SelfTestDigest == sha256_generateHash(SdZero, testSeq1, 11).dst

InitHash ==
  /\ isEntropySrcRdy = FALSE
  /\ isShutDown = FALSE
  /\ isDeviceOpPending = FALSE
  /\ isUsbOpPending = FALSE
  /\ dataOpLock = Unlocked
  /\ usbData = NullUsbData
  /\ buffRndIn = [i \in 1..(RND_IN_BUFFSIZE + 1) |-> 0]
  /\ buffTRndOut = [i \in 1..TRND_OUT_BUFFSIZE |-> 0]
  /\ buffFreed = FALSE
  /\ curTrngOutIdx = InitialCursor
  /\ blockSerialNumber \in 0..(SerialModulus - 1)
  /\ rct = rct_initialize
  /\ apt = apt_initialize
  /\ rd = [r \in Readers |-> RdIdle]
  /\ usb = [pc |-> "idle", bound |-> FALSE]
  /\ ex = [pc |-> "loaded", cnt |-> 0]
  /\ charDev = TRUE
  /\ hashLog = << >>
  /\ sd = SdAfterSelfTest
  /\ digestLog = << >>

\* lines 344-348: one sub-block is copied to srcToHash, stamped and hashed
hash_sub_block(raw) ==
  /\ Len(digestLog) < MaxDigestLog
  /\ LET srcToHash == raw \o << blockSerialNumber >>
     IN \E r \in {sha256_generateHash(sd, srcToHash, MIN_INPUT_NUM_WORDS + 1)} :
          /\ sd' = r.sd
          /\ digestLog' = Append(digestLog, [src |-> srcToHash, dst |-> r.dst])
  /\ blockSerialNumber' = sha256_stampSerialNumber(blockSerialNumber)
  /\ UNCHANGED << flagVars, dataOpLock, usbData, buffRndIn, buffTRndOut,
                  curTrngOutIdx, healthVars, rd, otherThreads, hashLog >>

\* line 963: a vector is hashed as it is
hash_vector(src) ==
  /\ Len(digestLog) < MaxDigestLog
  /\ \E r \in {sha256_generateHash(sd, src, Len(src))} :
       /\ sd' = r.sd
       /\ digestLog' = Append(digestLog, [src |-> src, dst |-> r.dst])
  /\ UNCHANGED << flagVars, dataOpLock, usbData, buffRndIn, outVars,
                  healthVars, rd, otherThreads, hashLog >>

NextHash ==
  \/ \E raw \in RawSubBlocks : hash_sub_block(raw)
  \/ \E src \in HashVectors : hash_vector(src)

SpecHash == InitHash /\ [][NextHash]_vars

\* C18: the digest is a function of the input words only: two calls of
\* sha256_generateHash with the same input give the same digest, whatever
\* the seed and whatever was hashed in between, and the self-test vector
\* always gives the digest it gave when the module was loaded.
C18_DigestDependsOnInputOnly ==
  /\ \A i, j \in 1..Len(digestLog) :
       digestLog[i].src = digestLog[j].src
         => digestLog[i].dst = digestLog[j].dst
  /\ \A i \in 1..Len(digestLog) :
       digestLog[i].src = testSeq1 => digestLog[i].dst = SelfTestDigest

\* the self-test vector has been hashed twice with a stamped sub-block
\* hashed in between
C18_Witness ==
  /\ Len(digestLog) = 3
  /\ digestLog[1].src = testSeq1
  /\ Len(digestLog[2].src) = MIN_INPUT_NUM_WORDS + 1
  /\ digestLog[2].dst # digestLog[1].dst
  /\ digestLog[3].src = testSeq1

(***************************************************************************)
(* C19, C20: the lock and the pending flags                                *)
(***************************************************************************)
\* reader r has taken dataOpLock at line 252 and has not yet come to its
\* mutex_unlock at line 290
HoldsLock(r) == rd[r].pc \notin {"idle", "lock"}

\* reader r is inside rcv_rnd_bytes, after line 328
InRcvRndBytes(r) == rd[r].pc \in {"snd", "snd_write", "chip", "cond", "oops"}

\* C19: device_read clears isDeviceOpPending and releases dataOpLock on
\* every path on which it took the lock, and rcv_rnd_bytes clears
\* isUsbOpPending on every path after setting it: when no read holds the
\* lock, both pending flags are false and no reader owns the mutex, and
\* when no read is inside rcv_rnd_bytes, isUsbOpPending is false.
C19_PendingFlagsClearedOnEveryPath ==
  /\ (\A r \in Readers : ~HoldsLock(r))
       => (~isDeviceOpPending /\ ~isUsbOpPending /\ dataOpLock \notin Readers)
  /\ (\A r \in Readers : ~InRcvRndBytes(r)) => ~isUsbOpPending

\* a read has refilled the block, served bytes of it and returned, and no
\* read is under way
C19_Witness ==
  /\ \A r \in Readers : rd[r].pc = "idle"
  /\ curTrngOutIdx > 0
  /\ curTrngOutIdx < TRND_OUT_BUFFSIZE
  /\ ~isDeviceOpPending
  /\ ~isUsbOpPending

\* C20: at most one reader's refill-and-serve sequence runs at a time: no
\* two readers are between taking dataOpLock and releasing it at once.
C20_OneReaderAtATime ==
  \A r1, r2 \in Readers : (HoldsLock(r1) /\ HoldsLock(r2)) => r1 = r2

(***************************************************************************)
(* C21..C25                                                                *)
(***************************************************************************)
\* C21: get_entropy_bytes called while curTrngOutIdx < TRND_OUT_BUFFSIZE
\* returns success, starts no transport exchange, and leaves the block, the
\* cursor, the serial counter and both health tests as they are; the cursor
\* being unchanged, the same goes for any number of calls.
C21_GetEntropyBytesIdempotent ==
  [][\A r \in Readers :
       (rd[r].pc = "loop" /\ Moves(r) /\ curTrngOutIdx < TRND_OUT_BUFFSIZE)
         => /\ rd'[r].pc = "copy"
            /\ rd'[r].retval = SUCCESS
            /\ rd'[r].writes = rd[r].writes
            /\ UNCHANGED << buffTRndOut, curTrngOutIdx, blockSerialNumber,
                            rct, apt, buffRndIn, isUsbOpPending, usbData >>]_vars

\* a read that found bytes left in the block has got success from
\* get_entropy_bytes without a refill
C21_Witness ==
  \E r \in Readers :
    /\ rd[r].pc = "copy"
    /\ rd[r].refills = 0
    /\ rd[r].total = 0
    /\ rd[r].startIdx > 0
    /\ rd[r].startIdx < TRND_OUT_BUFFSIZE
    /\ curTrngOutIdx = rd[r].startIdx

\* C22: when a recurrence of firstSample takes curRepetitions beyond
\* cutoffValue, apt_sample adds one to cycleFailures and starts the
\* repetition counter afresh, keeping firstSample, so that the next cycle
\* failure in the window takes a further cutoffValue + 1 recurrences.
C22_AptRestartsRepetitionCounter ==
  [][health_apt_sample =>
       LET v == buffTRndOut'[1]
           exceeds == /\ apt.isInitialized
                      /\ v = apt.firstSample
                      /\ apt.curRepetitions + 1 > apt.cutoffValue
       IN exceeds => /\ apt'.cycleFailures = apt.cycleFailures + 1
                     /\ apt'.curRepetitions = 0
                     /\ apt'.firstSample = apt.firstSample]_vars

\* the two tests fed bytes i, i + 1, ... of the block, one after the other
RECURSIVE FeedInOrder(_, _, _)
FeedInOrder(ht, block, i) ==
  IF i > Len(block) THEN ht
  ELSE CHOOSE res \in
         { FeedInOrder(fed, block, i + 1) :
             fed \in {[rct |-> rct_sample(ht.rct, block[i]),
                       apt |-> apt_sample(ht.apt, block[i])]} } : TRUE

\* C23: a refill whose exchange succeeded restarts both tests with their
\* statusByte kept, conditions the raw block, then feeds every byte of the
\* new block, in index order and once each, to rct_sample and apt_sample,
\* and only then judges the refill: it fails if and only if either statusByte
\* is then non-zero.
C23_RefillOrder ==
  [][\A r \in Readers :
       (rd[r].pc = "cond" /\ Moves(r))
         => LET fed == FeedInOrder([rct |-> rct_restart(rct),
                                    apt |-> apt_restart(apt)],
                                   buffTRndOut', 1)
            IN /\ rct_restart(rct).statusByte = rct.statusByte
               /\ apt_restart(apt).statusByte = apt.statusByte
               /\ Len(buffTRndOut') = TRND_OUT_BUFFSIZE
               /\ rct' = fed.rct
               /\ apt' = fed.apt
               /\ apt'.curSamples = TRND_OUT_BUFFSIZE - 1
               /\ rd'[r].refillFailed
                    <=> (rct'.statusByte # 0 \/ apt'.statusByte # 0)
               /\ rd'[r].refillFailed => rd'[r].retval = EPERM]_vars

\* a refill has been judged good after its whole block went through both
\* tests
C23_Witness ==
  /\ \E r \in Readers :
       /\ rd[r].pc = "copy"
       /\ rd[r].refills = 1
       /\ curTrngOutIdx = 0
       /\ apt.curSamples = TRND_OUT_BUFFSIZE - 1
       /\ ~Latched

\* C24: whenever isEntropySrcRdy is set, usbData is a complete usb_data
\* (non-NULL, endpoints found, buffers allocated), and so no read that has
\* passed the readiness check dereferences a NULL or freed usbData.
C24_ReadyImpliesUsbData ==
  /\ isEntropySrcRdy => (usbData # NullUsbData /\ usbData.alloc)
  /\ \A r \in Readers : rd[r].pc # "oops"

\* C25: in chip_read_data cnt stays within 0..length over any number of
\* inbound transfers of up to USB_BUFFER_SIZE bytes, length being the
\* RND_IN_BUFFSIZE + 1 bytes buffRndIn is allocated with: a turn of the loop
\* starts with cnt < length, writes only below the count it ends with,
\* which is at most length, and chip_read_data returns success only with
\* cnt = length.
C25_CountWithinLength ==
  [][\A r \in Readers :
       (rd[r].pc = "chip" /\ Moves(r))
         => LET length == RND_IN_BUFFSIZE + 1
                res == StripAppend(buffRndIn, rd[r].cnt,
                                   usbData'.bulk_in_buffer,
                                   usbData.bulk_in_size, length)
            IN /\ Len(usbData'.bulk_in_buffer) <= USB_BUFFER_SIZE
               /\ rd[r].cnt >= 0 /\ rd[r].cnt < length
               /\ res.cnt >= rd[r].cnt /\ res.cnt <= length
               /\ Len(buffRndIn) = length /\ Len(buffRndIn') = length
               /\ \A j \in 1..length :
                    (j <= rd[r].cnt \/ j > res.cnt)
                      => buffRndIn'[j] = buffRndIn[j]
               /\ rd'[r].cnt >= 0 /\ rd'[r].cnt <= length
               /\ (rd'[r].pc # "chip" /\ rd'[r].xret # ETIMEDOUT)
                    => res.cnt = length]_vars

\* chip_read_data has returned success after a transfer that held more
\* payload than was still missing: the last byte of the receive buffer is a
\* byte of that transfer, and not its last one
C25_Witness ==
  LET xfer == usbData.bulk_in_buffer
  IN /\ rd[ChipReader].pc = "snd"
     /\ rd[ChipReader].xret = EFAULT
     /\ Len(xfer) = USB_BUFFER_SIZE
     /\ buffRndIn[RND_IN_BUFFSIZE + 1] # 0
     /\ buffRndIn[RND_IN_BUFFSIZE + 1] # xfer[USB_BUFFER_SIZE]

====
